---- MODULE Spec2Model ----
(***************************************************************************)
(* A model of sample-mcp-clients/client.py: main, MCPClient.connect_to_-   *)
(* server, MCPClient.process_query, MCPClient.chat_loop and                *)
(* MCPClient.cleanup, run as one asyncio task.  The model endpoint, the    *)
(* MCP session and the child process are the environment: every call to    *)
(* them returns one of the outcomes the library can produce.               *)
(***************************************************************************)
EXTENDS Integers, Sequences, FiniteSets, TLC

VARIABLES
    pc,             \* position of the single task inside main
    argv,           \* sys.argv
    stdin,          \* the input stream: "open", or "eof" for good
    command,        \* connect_to_server: local `command`
    server_params,  \* connect_to_server: local `server_params`
    exit_stack,     \* self.exit_stack: contexts entered, oldest first
    transport,      \* the stdio_client context: "none", "open", "closed"
    session,        \* self.session: "none", "entered", "initialized", "exited"
    channel,        \* the pipe to the child: "up" or "down"
    exc,            \* the exception being raised, "none" when there is none
    iter,           \* iterations of chat_loop's while loop started
    line,           \* chat_loop: the line input() returned last
    query,          \* chat_loop: local `query` (the stripped line)
    tools,          \* process_query: the tools of list_tools' answer
    available_tools,\* process_query: local `available_tools`
    response,       \* process_query: response.output of the model endpoint
    tool_name,      \* process_query: local `tool_name`
    tool_args,      \* process_query: local `tool_args`
    tool_call,      \* process_query: local `tool_call`
    final_message,  \* process_query: local `final_message`
    printed,        \* what chat_loop printed (the last MaxIter messages)
    inflight,       \* session requests sent and not yet answered
    released,       \* contexts exited by cleanup, in the order exited
    closeCount,     \* times the transport context was closed
    cleanupRuns,    \* times MCPClient.cleanup ran
    discovered,     \* connect_to_server returned (its list_tools answered)
    modelCalls,     \* model endpoint calls of the current iteration
    listCalls,      \* list_tools requests of the current iteration
    toolCalls,      \* call_tool requests sent in the current iteration
    \* srvr_earthquake.py, one call of search_earthquake_by_place:
    srv_pc,         \* position inside the call
    srv_args,       \* the arguments of the call, defaults filled in
    geo_reply,      \* what the geocoding service answered
    geo_data,       \* local `geo_data`
    usgs_params,    \* local `params`
    srv_result,     \* the value returned
    srv_exc,        \* the exception raised out of the tool
    geo_requests,   \* requests sent to the geocoding service
    usgs_requests   \* requests sent to the USGS catalog

srv == <<srv_pc, srv_args, geo_reply, geo_data, usgs_params, srv_result, srv_exc,
         geo_requests, usgs_requests>>

vars == <<pc, argv, stdin, command, server_params, exit_stack, transport,
          session, channel, exc, iter, line, query, tools, available_tools,
          response, tool_name, tool_args, tool_call, final_message, printed,
          inflight, released, closeCount, cleanupRuns, discovered, modelCalls,
          listCalls, toolCalls, srv>>

(***************************************************************************)
(* Bounds.                                                                 *)
(***************************************************************************)
MaxIter == 2

(***************************************************************************)
(* Values standing for Python's None and for an unbound local.             *)
(***************************************************************************)
None == "<None>"
Unbound == "<unbound>"

(***************************************************************************)
(* Strings the code inspects character by character are sequences of       *)
(* one-character strings.                                                  *)
(***************************************************************************)
Whitespace == {" ", "\t"}

RECURSIVE lstrip(_)
lstrip(s) ==
    IF s # <<>> /\ Head(s) \in Whitespace THEN lstrip(Tail(s)) ELSE s

RECURSIVE rstrip(_)
rstrip(s) ==
    IF s # <<>> /\ s[Len(s)] \in Whitespace
    THEN rstrip(SubSeq(s, 1, Len(s) - 1))
    ELSE s

\* Mutant: the line is compared as typed, without strip().
strip_none(s) == s

\* str.strip()
strip(s) == rstrip(lstrip(s))

lower_char(c) ==
    CASE c = "Q" -> "q"
      [] c = "U" -> "u"
      [] c = "I" -> "i"
      [] c = "T" -> "t"
      [] c = "H" -> "h"
      [] c = "P" -> "p"
      [] c = "Y" -> "y"
      [] c = "J" -> "j"
      [] c = "S" -> "s"
      [] OTHER -> c

\* str.lower()
lower(s) == [i \in 1..Len(s) |-> lower_char(s[i])]

\* Mutant: the suffix is looked for anywhere in the string.
endswith_in(s, suffix) ==
    \E i \in 1..Len(s) :
        /\ i + Len(suffix) - 1 <= Len(s)
        /\ SubSeq(s, i, i + Len(suffix) - 1) = suffix

\* str.endswith(suffix)
endswith(s, suffix) ==
    /\ Len(s) >= Len(suffix)
    /\ SubSeq(s, Len(s) - Len(suffix) + 1, Len(s)) = suffix

(***************************************************************************)
(* Inputs.                                                                 *)
(***************************************************************************)
\* sys.argv: the program name alone, or the program name and a script path.
Prog == <<"c">>
Argvs ==
    { <<Prog>>,
      <<Prog, <<"s", ".", "p", "y">>>>,
      <<Prog, <<"s", ".", "j", "s">>>>,
      <<Prog, <<"s", ".", "s", "h">>>>,
      <<Prog, <<"s", ".", "P", "Y">>>>,
      <<Prog, <<"p", "y">>>>,
      <<Prog, <<"s", ".", "p", "y", "c">>>> }

\* The lines input() may return.
Lines ==
    { <<"q", "u", "i", "t">>,
      <<" ", "Q", "u", "I", "t", "\t">>,
      <<"Q", "U", "I", "T">>,
      <<>>,
      <<" ", " ">>,
      <<"h", "i">>,
      <<"q", "u", "i", "t", "s">> }

\* The catalog the child process serves (srvr_earthquake.py's tools), as
\* list_tools returns it: name, description, inputSchema.
Catalog ==
    << [name |-> "get_earthquakes", description |-> "Fetch recent earthquake data",
        inputSchema |-> [required |-> {"start_time"}]],
       [name |-> "search_earthquake_by_place", description |-> "Search earthquakes",
        inputSchema |-> [required |-> {"location"}]] >>

ToolNames == { Catalog[i].name : i \in 1..Len(Catalog) }

\* Output items of the model endpoint.
FunctionCall(n, a) ==
    [type |-> "function_call", name |-> n, arguments |-> a, content |-> <<>>]
Message(blocks) ==
    [type |-> "message", name |-> None, arguments |-> None, content |-> blocks]
Reasoning ==
    [type |-> "reasoning", name |-> None, arguments |-> None, content |-> <<>>]
Text(t) == [type |-> "text", text |-> t]
Image == [type |-> "image", text |-> Unbound]

\* Argument payloads, as the strings the endpoint returns.
ArgsTokyo == "{'location': 'Tokyo'}"
ArgsEmpty == "{}"
ArgsNone == "None"
ArgsList == "[1, 2]"
ArgsJsonNull == "{\"location\": null}"
ArgsCut == "{'location': "

Responses ==
    { <<>>,
      <<Message(<<Text("Hello")>>)>>,
      <<Message(<<>>)>>,
      <<FunctionCall("search_earthquake_by_place", ArgsTokyo)>>,
      <<FunctionCall("search_earthquake_by_place", ArgsEmpty)>>,
      <<FunctionCall("search_earthquake_by_place", ArgsNone)>>,
      <<FunctionCall("search_earthquake_by_place", ArgsList)>>,
      <<FunctionCall("search_earthquake_by_place", ArgsJsonNull)>>,
      <<FunctionCall("search_earthquake_by_place", ArgsCut)>>,
      <<FunctionCall("no_such_tool", ArgsEmpty)>>,
      <<Reasoning>>,
      <<Message(<<Text("Hello")>>),
        FunctionCall("search_earthquake_by_place", ArgsTokyo)>>,
      <<FunctionCall("search_earthquake_by_place", ArgsTokyo),
        FunctionCall("get_earthquakes", ArgsEmpty)>> }

\* ast.literal_eval on the payloads above: the value, or the exception.
literal_eval(s) ==
    CASE s = ArgsTokyo -> [ok |-> TRUE, kind |-> "dict", keys |-> {"location"}, error |-> "none"]
      [] s = ArgsEmpty -> [ok |-> TRUE, kind |-> "dict", keys |-> {}, error |-> "none"]
      [] s = ArgsNone -> [ok |-> TRUE, kind |-> "NoneType", keys |-> {}, error |-> "none"]
      [] s = ArgsList -> [ok |-> TRUE, kind |-> "list", keys |-> {}, error |-> "none"]
      [] s = ArgsJsonNull -> [ok |-> FALSE, kind |-> "none", keys |-> {}, error |-> "ValueError"]
      [] OTHER -> [ok |-> FALSE, kind |-> "none", keys |-> {}, error |-> "SyntaxError"]

NoArgs == [kind |-> "none", keys |-> {}]

\* server_params before it is built.
NoParams == [command |-> None, args |-> <<>>, env |-> None]

\* srvr_earthquake.py: values of the tool's locals.  A value carries its
\* Python type; a str is its text, a dict its items.
PyNone == [type |-> "NoneType", text |-> <<>>, lat |-> 0, lon |-> 0]
PyStr(t) == [type |-> "str", text |-> t, lat |-> 0, lon |-> 0]
PyCoords(la, lo) == [type |-> "dict", text |-> <<>>, lat |-> la, lon |-> lo]
NoCall == [location |-> None, min_magnitude |-> None, max_results |-> 0]
NoUsgsParams == [latitude |-> 0, longitude |-> 0, keys |-> {}, limit |-> 0]

\* Answers of the geocoding service: a list of matches (the JSON body), or
\* the exception client.get, raise_for_status or json raised.
GeoResults(ms) == [kind |-> "results", results |-> ms, error |-> "none"]
GeoError(e) == [kind |-> "error", results |-> <<>>, error |-> e]
NoReply == GeoError("none")

\* Results the child process may return for a call_tool request.
Result(err, blocks) == [isError |-> err, content |-> blocks]
NoResult == Result(FALSE, <<Text(Unbound)>>)
ToolResults(name, args) ==
    IF name \notin ToolNames
    THEN { Result(TRUE, <<Text("Unknown tool")>>) }
    ELSE IF \E i \in 1..Len(Catalog) :
                /\ Catalog[i].name = name
                /\ ~(Catalog[i].inputSchema.required \subseteq args.keys)
    THEN { Result(TRUE, <<Text("Error executing tool")>>) }
    ELSE { Result(FALSE, <<Text("Report A")>>),
           Result(FALSE, <<Text("Report A"), Text("Report B")>>),
           Result(TRUE, <<Text("Error executing tool")>>),
           Result(FALSE, <<>>),
           Result(FALSE, <<Image>>),
           Result(FALSE, <<Image, Text("Report B")>>) }

(***************************************************************************)
(* Control flow shared by the actions.                                     *)
(***************************************************************************)
locals == <<tools, available_tools, response, tool_name, tool_args, tool_call,
            final_message>>
counters == <<modelCalls, listCalls, toolCalls>>
resources == <<exit_stack, transport, session, released, closeCount,
               cleanupRuns>>

\* Exceptions that do not derive from Exception.
BaseExceptions == {"KeyboardInterrupt", "SystemExit"}

\* Mutant: main without its finally clause.
MainNoFinally == "done"

\* main: try ... finally: wherever the try block ends, by return or by an
\* exception, control goes to the finally clause.
MainFinally == "cleanup"

\* Mutant: the handler catches ValueError alone.
Caught_narrow(e) == e = "ValueError"

\* chat_loop: `except Exception as e` around the body of the loop.
Caught(e) == e \notin BaseExceptions

\* Where an exception raised in the body of the loop takes control.
LoopRaise(e) == IF Caught(e) THEN "except" ELSE MainFinally

\* Mutant: final_message outlives the call of process_query.
LocalsGone_keep ==
    /\ tools' = <<>>
    /\ available_tools' = <<>>
    /\ response' = <<>>
    /\ tool_name' = None
    /\ tool_args' = NoArgs
    /\ tool_call' = NoResult
    /\ final_message' = final_message

\* process_query returned or raised: its locals are gone.
LocalsGone ==
    /\ tools' = <<>>
    /\ available_tools' = <<>>
    /\ response' = <<>>
    /\ tool_name' = None
    /\ tool_args' = NoArgs
    /\ tool_call' = NoResult
    /\ final_message' = Unbound

\* The tool array for the model endpoint, built from list_tools' answer.
Adapt(tool) ==
    [type |-> "function", name |-> tool.name, description |-> tool.description,
     parameters |-> tool.inputSchema]
\* Mutant: the array is built back to front.
AvailableTools_reversed(ts) == [i \in 1..Len(ts) |-> Adapt(ts[Len(ts) + 1 - i])]

AvailableTools(ts) == [i \in 1..Len(ts) |-> Adapt(ts[i])]

Init ==
    /\ pc = "main"
    /\ argv \in Argvs
    /\ stdin = "open"
    /\ command = None
    /\ server_params = NoParams
    /\ exit_stack = <<>>
    /\ transport = "none"
    /\ session = "none"
    /\ channel = "up"
    /\ exc = "none"
    /\ iter = 0
    /\ line = <<>>
    /\ query = <<>>
    /\ tools = <<>>
    /\ available_tools = <<>>
    /\ response = <<>>
    /\ tool_name = None
    /\ tool_args = NoArgs
    /\ tool_call = NoResult
    /\ final_message = Unbound
    /\ printed = <<>>
    /\ inflight = 0
    /\ released = <<>>
    /\ closeCount = 0
    /\ cleanupRuns = 0
    /\ discovered = FALSE
    /\ modelCalls = 0
    /\ listCalls = 0
    /\ toolCalls = 0
    /\ srv_pc = "idle"
    /\ srv_args = NoCall
    /\ geo_reply = NoReply
    /\ geo_data = PyNone
    /\ usgs_params = NoUsgsParams
    /\ srv_result = PyNone
    /\ srv_exc = "none"
    /\ geo_requests = 0
    /\ usgs_requests = 0

(***************************************************************************)
(* main and connect_to_server.                                             *)
(***************************************************************************)
\* main: the usage check, then MCPClient() and entry into the try block.
CheckArgs ==
    /\ pc = "main"
    /\ IF Len(argv) < 2
       THEN pc' = "done" /\ exc' = "SystemExit"
       ELSE pc' = "connect" /\ exc' = exc
    /\ UNCHANGED <<srv, argv, stdin, command, server_params, channel, iter, line, query, printed, inflight,
                   discovered, locals, counters, resources>>

\* connect_to_server: the extension check and the choice of the launcher.
CheckExtension ==
    /\ pc = "connect"
    /\ LET server_script_path == argv[2]
           is_python == endswith(server_script_path, <<".", "p", "y">>)
           is_js == endswith(server_script_path, <<".", "j", "s">>)
       IN IF ~(is_python \/ is_js)
          THEN /\ exc' = "ValueError"
               /\ pc' = MainFinally
               /\ UNCHANGED <<command, server_params>>
          ELSE /\ command' = (IF is_python THEN "python" ELSE "node")
               /\ server_params' = [command |-> command',
                                    args |-> <<server_script_path>>,
                                    env |-> None]
               /\ pc' = "spawn"
               /\ exc' = exc
    /\ UNCHANGED <<srv, argv, stdin, channel, iter, line, query, printed, inflight, discovered,
                   locals, counters, resources>>

\* Mutant: the transport context is entered without the exit stack.
Spawn_unregistered ==
    /\ pc = "spawn"
    /\ \/ /\ transport' = "open"
          /\ pc' = "session_enter"
          /\ exc' = exc
       \/ /\ exc' = "OSError"
          /\ pc' = MainFinally
          /\ transport' = transport
    /\ UNCHANGED <<srv, argv, stdin, command, server_params, exit_stack, session, channel, iter, line,
                   query, printed, inflight, released, closeCount,
                   cleanupRuns, discovered, locals, counters>>

\* connect_to_server: enter_async_context(stdio_client(server_params)).
Spawn ==
    /\ pc = "spawn"
    /\ \/ /\ exit_stack' = Append(exit_stack, "transport")
          /\ transport' = "open"
          /\ pc' = "session_enter"
          /\ exc' = exc
       \/ /\ exc' = "OSError"
          /\ pc' = MainFinally
          /\ UNCHANGED <<exit_stack, transport>>
    /\ UNCHANGED <<srv, argv, stdin, command, server_params, session, channel, iter, line, query, printed,
                   inflight, released, closeCount, cleanupRuns, discovered,
                   locals, counters>>

\* connect_to_server: enter_async_context(ClientSession(stdio, write)).
EnterSession ==
    /\ pc = "session_enter"
    /\ \/ /\ exit_stack' = Append(exit_stack, "session")
          /\ session' = "entered"
          /\ pc' = "initialize"
          /\ exc' = exc
       \/ /\ exc' = "RuntimeError"
          /\ pc' = MainFinally
          /\ UNCHANGED <<exit_stack, session>>
    /\ UNCHANGED <<srv, argv, stdin, command, server_params, transport, channel, iter, line, query, printed,
                   inflight, released, closeCount, cleanupRuns, discovered,
                   locals, counters>>

\* connect_to_server: await self.session.initialize().
Initialize ==
    /\ pc = "initialize"
    /\ \/ /\ session' = "initialized"
          /\ pc' = "connect_list"
          /\ UNCHANGED <<exc, channel>>
       \/ /\ exc' = "McpError"
          /\ channel' \in {channel, "down"}
          /\ pc' = MainFinally
          /\ session' = session
    /\ UNCHANGED <<srv, argv, stdin, command, server_params, exit_stack, transport, iter, line, query, printed,
                   inflight, released, closeCount, cleanupRuns, discovered,
                   locals, counters>>

\* Mutant: a failure of the connect-time list_tools is swallowed.
ConnectListTools_swallow ==
    /\ pc = "connect_list"
    /\ \/ /\ discovered' = TRUE
          /\ UNCHANGED <<exc, channel>>
       \/ /\ channel' \in {channel, "down"}
          /\ UNCHANGED <<exc, discovered>>
    /\ command' = None
    /\ server_params' = NoParams
    /\ pc' = "prompt"
    /\ UNCHANGED <<srv, argv, stdin, iter, line, query, printed, inflight, locals,
                   counters, resources>>

\* connect_to_server: list_tools, the print of the tool names, and the return
\* into main, which calls chat_loop.
ConnectListTools ==
    /\ pc = "connect_list"
    /\ \/ /\ discovered' = TRUE
          /\ command' = None
          /\ server_params' = NoParams
          /\ pc' = "prompt"
          /\ UNCHANGED <<exc, channel>>
       \/ /\ exc' = "McpError"
          /\ channel' \in {channel, "down"}
          /\ pc' = MainFinally
          /\ UNCHANGED <<discovered, command, server_params>>
    /\ UNCHANGED <<srv, argv, stdin, iter, line, query, printed, inflight, locals, counters,
                   resources>>

(***************************************************************************)
(* chat_loop and process_query.                                            *)
(***************************************************************************)
\* chat_loop: input(...).strip() and the test for 'quit'; a query goes on to
\* process_query, whose first statement builds `messages`.
ReadLine ==
    /\ pc = "prompt"
    /\ stdin = "open"
    /\ \E l \in Lines :
          LET q == strip(l)
          IN /\ line' = l
             /\ query' = q
             /\ IF lower(q) = <<"q", "u", "i", "t">>
                THEN /\ pc' = MainFinally
                     /\ UNCHANGED <<iter, counters>>
                ELSE /\ iter < MaxIter
                     /\ iter' = iter + 1
                     /\ modelCalls' = 0
                     /\ listCalls' = 0
                     /\ toolCalls' = 0
                     /\ pc' = "list_tools"
    /\ UNCHANGED <<srv, argv, stdin, command, server_params, channel, exc, printed, inflight, discovered,
                   locals, resources>>

\* chat_loop: input() raises EOFError at the end of the input: for good when
\* the input is a file or a pipe, for this one read when it is a terminal.
ReadEOF ==
    /\ pc = "prompt"
    /\ iter < MaxIter \/ stdin = "eof"
    /\ iter' = (IF iter < MaxIter THEN iter + 1 ELSE iter)
    /\ modelCalls' = 0
    /\ listCalls' = 0
    /\ toolCalls' = 0
    /\ stdin' \in (IF stdin = "eof" THEN {"eof"} ELSE {"open", "eof"})
    /\ exc' = "EOFError"
    /\ pc' = LoopRaise("EOFError")
    /\ UNCHANGED <<srv, argv, command, server_params, channel, line, query, printed, inflight,
                   discovered, locals, resources>>

\* chat_loop: the user interrupts the program at the prompt.
Interrupt ==
    /\ pc = "prompt"
    /\ exc' = "KeyboardInterrupt"
    /\ pc' = LoopRaise("KeyboardInterrupt")
    /\ UNCHANGED <<srv, argv, stdin, command, server_params, channel, iter, line, query, printed, inflight,
                   discovered, locals, counters, resources>>

\* Mutant: the tools are taken from a cache filled at connect time, and no
\* list_tools request is made in the turn.
ListToolsSend_cached ==
    /\ pc = "list_tools"
    /\ tools' = Catalog
    /\ available_tools' = AvailableTools(tools')
    /\ pc' = "model"
    /\ UNCHANGED <<srv, argv, stdin, command, server_params, channel, exc,
                   iter, line, query, printed, inflight, discovered, response,
                   tool_name, tool_args, tool_call, final_message, counters,
                   resources>>

\* process_query: the list_tools request is written to the session.
ListToolsSend ==
    /\ pc = "list_tools"
    /\ inflight' = inflight + 1
    /\ listCalls' = listCalls + 1
    /\ pc' = "list_wait"
    /\ UNCHANGED <<srv, argv, stdin, command, server_params, channel, exc, iter, line, query, printed,
                   discovered, locals, modelCalls, toolCalls, resources>>

\* process_query: list_tools answers, and available_tools is built from it;
\* or it fails, with the channel lost or not.
ListToolsReturn ==
    /\ pc = "list_wait"
    /\ inflight' = inflight - 1
    /\ \/ /\ channel = "up"
          /\ tools' = Catalog
          /\ available_tools' = AvailableTools(tools')
          /\ pc' = "model"
          /\ UNCHANGED <<exc, channel>>
       \/ /\ exc' = "McpError"
          /\ channel' \in {channel, "down"}
          /\ pc' = LoopRaise("McpError")
          /\ UNCHANGED <<tools, available_tools>>
    /\ UNCHANGED <<srv, argv, stdin, command, server_params, iter, line, query, printed, discovered, response,
                   tool_name, tool_args, tool_call, final_message, counters,
                   resources>>

\* process_query: self.client.responses.create(...), a blocking call: it
\* returns the output list, raises an error of the endpoint's client, or is
\* interrupted by the user.
ModelCall ==
    /\ pc = "model"
    /\ modelCalls' = modelCalls + 1
    /\ \/ /\ response' \in Responses
          /\ pc' = "interpret"
          /\ exc' = exc
       \/ /\ exc' \in {"APIError", "KeyboardInterrupt"}
          /\ pc' = LoopRaise(exc')
          /\ response' = response
    /\ UNCHANGED <<srv, argv, stdin, command, server_params, channel, iter, line, query, printed, inflight,
                   discovered, tools, available_tools, tool_name, tool_args,
                   tool_call, final_message, listCalls, toolCalls, resources>>

\* bool(output) of an output item: the response objects define neither
\* __bool__ nor __len__.
Truthy(output) == TRUE

\* Mutant: the last output item is the one interpreted.
LastOutput(resp) == resp[Len(resp)]

\* process_query: response.output[0].
FirstOutput(resp) == resp[1]

\* process_query: response.output[0] and the branch on output.type, up to the
\* call of session.call_tool or to the return statement, for the model
\* response resp.
InterpretResponse(resp) ==
    /\ pc = "interpret"
    /\ IF resp = <<>>
       THEN /\ exc' = "IndexError"
            /\ pc' = LoopRaise("IndexError")
            /\ UNCHANGED <<tool_name, tool_args, final_message>>
       ELSE LET output == FirstOutput(resp)
            IN IF ~Truthy(output)
               THEN /\ final_message' = "No response generated."
                    /\ pc' = "return"
                    /\ UNCHANGED <<exc, tool_name, tool_args>>
               ELSE IF output.type = "function_call"
               THEN LET parsed == literal_eval(output.arguments)
                    IN /\ tool_name' = output.name
                       /\ final_message' = final_message
                       /\ IF parsed.ok
                          THEN /\ tool_args' = [kind |-> parsed.kind,
                                                keys |-> parsed.keys]
                               /\ pc' = "call_tool"
                               /\ exc' = exc
                          ELSE /\ exc' = parsed.error
                               /\ pc' = LoopRaise(parsed.error)
                               /\ tool_args' = tool_args
               ELSE IF output.type = "message"
               THEN IF output.content = <<>>
                    THEN /\ exc' = "IndexError"
                         /\ pc' = LoopRaise("IndexError")
                         /\ UNCHANGED <<tool_name, tool_args, final_message>>
                    ELSE /\ final_message' = output.content[1].text
                         /\ pc' = "return"
                         /\ UNCHANGED <<exc, tool_name, tool_args>>
               ELSE IF final_message = Unbound
               THEN /\ exc' = "UnboundLocalError"
                    /\ pc' = LoopRaise("UnboundLocalError")
                    /\ UNCHANGED <<tool_name, tool_args, final_message>>
               ELSE /\ pc' = "return"
                    /\ UNCHANGED <<exc, tool_name, tool_args, final_message>>
    /\ UNCHANGED <<srv, argv, stdin, command, server_params, channel, iter, line, query, printed, inflight,
                   discovered, tools, available_tools, response, tool_call, counters,
                   resources>>

\* process_query, on the response the model call returned.
Interpret == InterpretResponse(response)

\* session.call_tool builds its request from (name, arguments): the arguments
\* must be a dict or None, anything else is refused before a request exists.
SessionAccepts(args) == args.kind \in {"dict", "NoneType"}

\* process_query: session.call_tool(tool_name, tool_args) writes its request.
CallToolSend ==
    /\ pc = "call_tool"
    /\ IF SessionAccepts(tool_args)
       THEN /\ toolCalls' = toolCalls + 1
            /\ inflight' = inflight + 1
            /\ pc' = "call_wait"
            /\ exc' = exc
       ELSE /\ exc' = "ValidationError"
            /\ pc' = LoopRaise("ValidationError")
            /\ UNCHANGED <<toolCalls, inflight>>
    /\ UNCHANGED <<srv, argv, stdin, command, server_params, channel, iter, line, query, printed, discovered,
                   locals, modelCalls, listCalls, resources>>

\* process_query: call_tool answers with the child's result, or fails.
CallToolReturn ==
    /\ pc = "call_wait"
    /\ inflight' = inflight - 1
    /\ \/ /\ channel = "up"
          /\ tool_call' \in ToolResults(tool_name, tool_args)
          /\ pc' = "extract"
          /\ UNCHANGED <<exc, channel>>
       \/ /\ exc' = "McpError"
          /\ channel' \in {channel, "down"}
          /\ pc' = LoopRaise("McpError")
          /\ tool_call' = tool_call
    /\ UNCHANGED <<srv, argv, stdin, command, server_params, iter, line, query, printed, discovered,
                   tools, available_tools, response, tool_name, tool_args,
                   final_message, counters, resources>>

\* Mutant: after a tool call, the next output item is processed too.
Extract_all ==
    /\ pc = "extract"
    /\ IF Len(response) > 1
       THEN /\ response' = Tail(response)
            /\ pc' = "interpret"
       ELSE /\ response' = response
            /\ pc' = "return"
    /\ final_message' = (IF tool_call.content = <<>> THEN Unbound
                         ELSE tool_call.content[1].text)
    /\ UNCHANGED <<srv, argv, stdin, command, server_params, channel, exc, iter, line, query, printed,
                   inflight, discovered, tools, available_tools, tool_name,
                   tool_args, tool_call, counters, resources>>

\* Mutant: a result flagged isError is raised as a failure of the turn.
Extract_checked ==
    /\ pc = "extract"
    /\ IF tool_call.isError
       THEN /\ exc' = "ToolExecutionError"
            /\ pc' = LoopRaise("ToolExecutionError")
            /\ final_message' = final_message
       ELSE IF tool_call.content = <<>>
       THEN /\ exc' = "IndexError"
            /\ pc' = LoopRaise("IndexError")
            /\ final_message' = final_message
       ELSE IF tool_call.content[1].type # "text"
       THEN /\ exc' = "AttributeError"
            /\ pc' = LoopRaise("AttributeError")
            /\ final_message' = final_message
       ELSE /\ final_message' = tool_call.content[1].text
            /\ pc' = "return"
            /\ exc' = exc
    /\ UNCHANGED <<srv, argv, stdin, command, server_params, channel, iter,
                   line, query, printed, inflight, discovered, tools,
                   available_tools, response, tool_name, tool_args, tool_call,
                   counters, resources>>

\* Mutant: the text is taken from the last content block.
Extract_last ==
    /\ pc = "extract"
    /\ IF tool_call.content = <<>>
       THEN /\ exc' = "IndexError"
            /\ pc' = LoopRaise("IndexError")
            /\ final_message' = final_message
       ELSE IF tool_call.content[Len(tool_call.content)].type # "text"
       THEN /\ exc' = "AttributeError"
            /\ pc' = LoopRaise("AttributeError")
            /\ final_message' = final_message
       ELSE /\ final_message' = tool_call.content[Len(tool_call.content)].text
            /\ pc' = "return"
            /\ exc' = exc
    /\ UNCHANGED <<srv, argv, stdin, command, server_params, channel, iter,
                   line, query, printed, inflight, discovered, tools,
                   available_tools, response, tool_name, tool_args, tool_call,
                   counters, resources>>

\* process_query: final_message = tool_call.content[0].text.
Extract ==
    /\ pc = "extract"
    /\ IF tool_call.content = <<>>
       THEN /\ exc' = "IndexError"
            /\ pc' = LoopRaise("IndexError")
            /\ final_message' = final_message
       ELSE IF tool_call.content[1].type # "text"
       THEN /\ exc' = "AttributeError"
            /\ pc' = LoopRaise("AttributeError")
            /\ final_message' = final_message
       ELSE /\ final_message' = tool_call.content[1].text
            /\ pc' = "return"
            /\ exc' = exc
    /\ UNCHANGED <<srv, argv, stdin, command, server_params, channel, iter, line, query, printed, inflight,
                   discovered, tools, available_tools, response, tool_name,
                   tool_args, tool_call, counters, resources>>

\* print: the message goes to the terminal, which shows the last MaxIter
\* messages.
Show(out, message) ==
    LET all == Append(out, message)
    IN IF Len(all) > MaxIter THEN Tail(all) ELSE all

\* process_query returns final_message and chat_loop prints it.
PrintAnswer ==
    /\ pc = "return"
    /\ printed' = Show(printed, [kind |-> "answer", text |-> final_message])
    /\ LocalsGone
    /\ pc' = "prompt"
    /\ UNCHANGED <<srv, argv, stdin, command, server_params, channel, exc, iter, line, query, inflight,
                   discovered, counters, resources>>

\* chat_loop: except Exception as e: print(f"\nError: {str(e)}").
HandleException ==
    /\ pc = "except"
    /\ printed' = Show(printed, [kind |-> "error", text |-> exc])
    /\ exc' = "none"
    /\ LocalsGone
    /\ pc' = "prompt"
    /\ UNCHANGED <<srv, argv, stdin, command, server_params, channel, iter, line, query, inflight, discovered,
                   counters, resources>>

(***************************************************************************)
(* cleanup.                                                                *)
(***************************************************************************)
\* main's finally clause calls cleanup, which awaits exit_stack.aclose().
Cleanup ==
    /\ pc = "cleanup"
    /\ cleanupRuns' = cleanupRuns + 1
    /\ LocalsGone
    /\ pc' = "aclose"
    /\ UNCHANGED <<srv, argv, stdin, command, server_params, channel, exc, iter, line, query, printed,
                   inflight, discovered, counters, exit_stack, transport,
                   session, released, closeCount>>

\* Mutant: aclose exits the contexts in the order they were entered.
NextToExit_fifo(stack) == 1

\* The context aclose exits next: the one entered last.
NextToExit(stack) == Len(stack)

\* aclose exits one context and drops it from the stack.
ExitContext ==
    /\ pc = "aclose"
    /\ exit_stack # <<>>
    /\ LET k == NextToExit(exit_stack)
           ctx == exit_stack[k]
       IN /\ exit_stack' = [i \in 1..(Len(exit_stack) - 1) |->
                               IF i < k THEN exit_stack[i] ELSE exit_stack[i + 1]]
          /\ released' = Append(released, ctx)
          /\ IF ctx = "transport"
             THEN /\ transport' = "closed"
                  /\ closeCount' = closeCount + 1
                  /\ channel' = "down"
                  /\ session' = session
             ELSE /\ session' = "exited"
                  /\ UNCHANGED <<transport, closeCount, channel>>
    /\ UNCHANGED <<srv, argv, stdin, command, server_params, pc, exc, iter, line, query, printed, inflight,
                   discovered, locals, counters, cleanupRuns>>

\* aclose is through; the pending exception, if any, leaves main.
MainReturn ==
    /\ pc = "aclose"
    /\ exit_stack = <<>>
    /\ pc' = "done"
    /\ UNCHANGED <<srv, argv, stdin, command, server_params, channel, exc, iter, line, query, printed,
                   inflight, discovered, locals, counters, resources>>

Next ==
    \/ CheckArgs
    \/ CheckExtension
    \/ Spawn
    \/ EnterSession
    \/ Initialize
    \/ ConnectListTools
    \/ ReadLine
    \/ ReadEOF
    \/ Interrupt
    \/ ListToolsSend
    \/ ListToolsReturn
    \/ ModelCall
    \/ Interpret
    \/ CallToolSend
    \/ CallToolReturn
    \/ Extract
    \/ PrintAnswer
    \/ HandleException
    \/ Cleanup
    \/ ExitContext
    \/ MainReturn

Spec == Init /\ [][Next]_vars

\* The program runs on: each step of the task that can be taken is taken,
\* every request to the session or the model endpoint returns or fails, and
\* input() returns a line or raises.  Nothing makes the user interrupt.
Fairness ==
    /\ WF_vars(CheckArgs) /\ WF_vars(CheckExtension) /\ WF_vars(Spawn)
    /\ WF_vars(EnterSession) /\ WF_vars(Initialize)
    /\ WF_vars(ConnectListTools)
    /\ WF_vars(ReadLine \/ ReadEOF)
    /\ WF_vars(ListToolsSend) /\ WF_vars(ListToolsReturn)
    /\ WF_vars(ModelCall) /\ WF_vars(Interpret)
    /\ WF_vars(CallToolSend) /\ WF_vars(CallToolReturn) /\ WF_vars(Extract)
    /\ WF_vars(PrintAnswer) /\ WF_vars(HandleException)
    /\ WF_vars(Cleanup) /\ WF_vars(ExitContext) /\ WF_vars(MainReturn)

SpecLive == Spec /\ Fairness

(***************************************************************************)
(* Properties.                                                             *)
(***************************************************************************)
\* The positions inside chat_loop.
LoopPcs == {"prompt", "list_tools", "list_wait", "model", "interpret",
            "call_tool", "call_wait", "extract", "return", "except"}

\* The positions inside process_query, and the handler that follows it.
TurnEnd == {"return", "except"}

\* C1 as stated, for the runs that get as far as attempting the spawn (the
\* spawn failure the claim names among them): when main has ended, the
\* transport has been closed exactly once.
C1_ClosedExactlyOnce ==
    (pc = "done" /\ exc \notin {"SystemExit", "ValueError"}) => closeCount = 1

\* C1, amended: the transport is never closed more than once and cleanup never
\* runs more than once; when main has ended, a transport that was spawned has
\* been closed exactly once and is not left open, a transport that was never
\* spawned (no argument, bad extension, spawn failure) has been closed zero
\* times, and cleanup has run exactly once unless the argument was missing.
C1_ClosedOnceIfSpawned ==
    /\ closeCount <= 1
    /\ cleanupRuns <= 1
    /\ pc = "done" =>
          /\ transport # "none" => closeCount = 1 /\ transport = "closed"
          /\ transport = "none" => closeCount = 0
          /\ cleanupRuns = (IF Len(argv) < 2 THEN 0 ELSE 1)

\* C1's case: main has ended after a turn that failed, with the transport
\* closed once.
C1_Witness ==
    /\ pc = "done"
    /\ closeCount = 1
    /\ \E i \in 1..Len(printed) : printed[i].kind = "error"

\* C2: when the transport was spawned and connect_to_server then failed (in
\* the session's entry, in initialize or in its list_tools), main does not end
\* with that failure while the transport is open: it has been closed, once.
C2_NoLeakOnHandshakeFailure ==
    (pc = "done" /\ transport # "none" /\ ~discovered /\ exc # "none")
        => (transport = "closed" /\ closeCount = 1)

\* C2's case: main has ended with the handshake's failure, the session having
\* been entered, and the transport is closed.
C2_Witness ==
    /\ pc = "done"
    /\ exc = "McpError"
    /\ ~discovered
    /\ session = "exited"
    /\ transport = "closed"

\* C3: the session is acquired only once the transport is, and initialize is
\* called only once both are on the exit stack; cleanup exits the session
\* before it closes the transport, and exits exactly the contexts that were
\* entered, in the reverse of the order they were entered in.
C3_ReverseRelease ==
    /\ session # "none" => transport # "none"
    /\ pc \in {"initialize", "connect_list"} \cup LoopPcs
          => exit_stack = <<"transport", "session">>
    /\ transport = "closed" => session \in {"none", "exited"}
    /\ pc = "done" =>
          released = (IF session # "none" THEN <<"session", "transport">>
                      ELSE IF transport # "none" THEN <<"transport">>
                      ELSE <<>>)

\* C3's case: cleanup has exited the session and then closed the transport.
C3_Witness ==
    /\ pc = "done"
    /\ released = <<"session", "transport">>
    /\ session = "exited"
    /\ transport = "closed"

\* C4: the chat loop runs, and a call_tool request is sent, only when
\* connect_to_server completed: initialize succeeded and the connect-time
\* list_tools answered.  No iteration of the loop starts otherwise.
C4_NoTurnBeforeHandshake ==
    /\ pc \in LoopPcs =>
          /\ discovered
          /\ session = "initialized"
          /\ transport = "open"
    /\ (iter > 0 \/ toolCalls > 0 \/ listCalls > 0 \/ modelCalls > 0
        \/ printed # <<>>) => discovered

\* C4's case: a call_tool request is in flight.
C4_Witness ==
    /\ pc = "call_wait"
    /\ toolCalls = 1
    /\ inflight = 1
    /\ discovered

\* C5 as stated: at most one session request is in flight, a turn sends at
\* most one call_tool request, the prompt is reached only when every iteration
\* started has printed its answer or its error, and at the end of every turn
\* the model endpoint has been called exactly once.
C5_ExactlyOneModelCall ==
    /\ inflight <= 1
    /\ toolCalls <= 1
    /\ pc = "prompt" => Len(printed) = iter /\ inflight = 0
    /\ (pc \in TurnEnd /\ listCalls > 0) => modelCalls = 1

\* C5, amended: as above, but the model endpoint is called at most once per
\* turn: exactly once in a turn whose list_tools request was answered, and not
\* at all in a turn whose list_tools request failed.  (Iterations past
\* MaxIter, which only a read at the end of the input starts, are counted as
\* the last one, and the terminal keeps MaxIter messages.)
C5_Sequential ==
    /\ inflight <= 1
    /\ toolCalls <= 1
    /\ listCalls <= 1
    /\ modelCalls <= 1
    /\ inflight = 1 <=> pc \in {"list_wait", "call_wait"}
    /\ pc = "prompt" => Len(printed) = iter /\ inflight = 0
    /\ pc \in LoopPcs \ {"prompt"} =>
          \/ Len(printed) = iter - 1
          \/ iter = MaxIter /\ Len(printed) = MaxIter /\ stdin = "eof"
    /\ pc \in {"interpret", "call_tool", "call_wait", "extract", "return"}
          => modelCalls = 1
    /\ (pc \in TurnEnd /\ listCalls > 0) =>
          \/ modelCalls = 1
          \/ modelCalls = 0 /\ toolCalls = 0 /\ exc = "McpError"

\* C5's case: the second turn ends having called the model endpoint once and
\* sent one call_tool request.
C5_Witness ==
    /\ pc = "return"
    /\ iter = 2
    /\ modelCalls = 1
    /\ toolCalls = 1

\* Exceptions that derive from Exception: the failures, as opposed to the
\* user's interrupt and the usage exit.
IsFailure(e) == e \notin {"none", "KeyboardInterrupt", "SystemExit"}

\* C6: a failure raised in a turn (an error of the model endpoint, of the
\* parse of the arguments, of the session, of the read of the answer) takes
\* control to the handler of the loop, whose next step prints it and returns
\* to the prompt; a failure leaves main only when connect_to_server did not
\* complete, and then cleanup has run.
C6_TurnFailuresCaught ==
    /\ [](/\ (IsFailure(exc) /\ discovered) => pc = "except"
          /\ (pc = "done" /\ IsFailure(exc)) =>
                ~discovered /\ iter = 0 /\ cleanupRuns = 1)
    /\ [][pc = "except" =>
            /\ pc' = "prompt"
            /\ printed'[Len(printed')] = [kind |-> "error", text |-> exc]
            /\ Len(printed) < MaxIter =>
                  printed' = Append(printed, [kind |-> "error", text |-> exc])
            /\ exc' = "none"]_vars

\* C6's case: a turn failed in the session's call_tool, the failure was
\* printed and the loop is at the prompt again.
C6_Witness ==
    /\ pc = "prompt"
    /\ toolCalls = 1
    /\ printed # <<>>
    /\ printed[Len(printed)] = [kind |-> "error", text |-> "McpError"]

\* The lines that are the word quit in any letter case, with whitespace around.
QuitLetters == << {"q", "Q"}, {"u", "U"}, {"i", "I"}, {"t", "T"} >>
IsQuitLine(l) ==
    \E i \in 0..Len(l) :
        /\ i + 4 <= Len(l)
        /\ \A k \in 1..i : l[k] \in Whitespace
        /\ \A k \in 1..4 : l[i + k] \in QuitLetters[k]
        /\ \A k \in (i + 5)..Len(l) : l[k] \in Whitespace

\* A step of chat_loop that read a line: the prompt is left with no exception.
LineRead == pc = "prompt" /\ pc' # "prompt" /\ exc' = "none"

\* C7 as stated: a quit line ends the loop with no call of the model endpoint
\* or the session, and main ends normally only after a quit line and cleanup;
\* every other line is a query, and its turn calls the model endpoint.
C7_OtherLinesReachModel ==
    /\ [](/\ (pc = "done" /\ exc = "none") =>
                IsQuitLine(line) /\ cleanupRuns = 1
          /\ (pc \in TurnEnd /\ exc # "EOFError") => modelCalls = 1)
    /\ [][LineRead =>
            IF IsQuitLine(line')
            THEN /\ pc' = "cleanup"
                 /\ UNCHANGED <<modelCalls, listCalls, toolCalls, inflight,
                                printed, iter>>
            ELSE pc' = "list_tools" /\ iter' = iter + 1]_vars

\* C7, amended: as above, but every other line is a query whose turn sends the
\* list_tools request and calls the model endpoint once that request is
\* answered; a turn whose list_tools request fails ends without a call of the
\* model endpoint.
C7_QuitEndsLoop ==
    /\ [](/\ (pc = "done" /\ exc = "none") =>
                IsQuitLine(line) /\ cleanupRuns = 1
          /\ (pc \in LoopPcs \ {"prompt"} /\ exc # "EOFError") =>
                ~IsQuitLine(line) /\ query = strip(line)
          /\ (pc \in TurnEnd /\ exc # "EOFError") =>
                /\ listCalls = 1
                /\ \/ modelCalls = 1
                   \/ modelCalls = 0 /\ exc = "McpError")
    /\ [][LineRead =>
            IF IsQuitLine(line')
            THEN /\ pc' = "cleanup"
                 /\ UNCHANGED <<modelCalls, listCalls, toolCalls, inflight,
                                printed, iter>>
            ELSE pc' = "list_tools" /\ iter' = iter + 1]_vars

\* C7's case: quit, typed in mixed case between whitespace, ended the loop
\* after a turn, and cleanup is about to run.
C7_Witness ==
    /\ pc = "cleanup"
    /\ exc = "none"
    /\ line = <<" ", "Q", "u", "I", "t", "\t">>
    /\ iter = 1
    /\ modelCalls = 1

\* C8 as stated: when the model endpoint returned an empty output list, the
\* turn ends by returning "No response generated.", with no list_tools and no
\* call_tool request in it.
C8_EmptyOutputFallback ==
    (pc \in TurnEnd /\ modelCalls = 1 /\ response = <<>> /\ exc # "APIError")
        => /\ pc = "return"
           /\ final_message = "No response generated."
           /\ listCalls = 0
           /\ toolCalls = 0

\* The payloads ast.literal_eval turns into a mapping.
ParsesToMapping(payload) ==
    literal_eval(payload).ok /\ literal_eval(payload).kind = "dict"

\* C9 as stated: when the first output item is a function call whose payload
\* does not parse into a mapping, no call_tool request is sent and the turn
\* ends in the handler of the loop, with an error.
C9_UnparseableNeverSent ==
    (/\ pc \in {"call_tool", "call_wait", "extract", "return", "except"}
     /\ response # <<>>
     /\ response[1].type = "function_call"
     /\ ~ParsesToMapping(response[1].arguments))
        => (toolCalls = 0 /\ pc \in {"call_tool", "except"})

\* C10 as stated: when the tool the model names is not in the catalog, no
\* call_tool request is sent for it and the turn ends with an error.
C10_UnknownToolNotSent ==
    (pc \in LoopPcs /\ tool_name # None /\ tool_name \notin ToolNames)
        => (toolCalls = 0 /\ pc \in {"call_tool", "except"})

\* The arguments fit the schema of the tool named: a mapping holding every
\* required field.
FitsSchema(name, args) ==
    /\ args.kind = "dict"
    /\ \A i \in 1..Len(Catalog) :
          Catalog[i].name = name =>
              Catalog[i].inputSchema.required \subseteq args.keys

\* C11 as stated: a call_tool request is sent only with arguments that fit the
\* schema of the tool named; a parsed mapping that does not fit ends the turn
\* in the handler of the loop with no request sent, and no turn sends a second
\* request.
C11_ValidatedBeforeDispatch ==
    /\ toolCalls <= 1
    /\ (pc \in LoopPcs /\ tool_name \in ToolNames /\ tool_args.kind = "dict"
        /\ ~FitsSchema(tool_name, tool_args))
          => (toolCalls = 0 /\ pc \in {"call_tool", "except"})

\* The last three characters of s are a dot and the two letters.
HasExtension(s, a, b) ==
    /\ Len(s) >= 3
    /\ s[Len(s) - 2] = "."
    /\ s[Len(s) - 1] = a
    /\ s[Len(s)] = b

\* C12: with a script path that ends in neither .py nor .js, connect_to_server
\* raises ValueError with no process spawned and no session created; with .py
\* the launcher is python, with .js it is node, and the script path is the
\* only argument.
C12_ExtensionSelectsLauncher ==
    Len(argv) >= 2 =>
        LET path == argv[2]
            py == HasExtension(path, "p", "y")
            js == HasExtension(path, "j", "s")
        IN /\ ~(py \/ js) =>
                /\ pc \in {"main", "connect", "cleanup", "aclose", "done"}
                /\ pc \in {"cleanup", "aclose", "done"} => exc = "ValueError"
                /\ transport = "none"
                /\ session = "none"
                /\ exit_stack = <<>>
                /\ server_params = NoParams
           /\ (py \/ js) => ~(exc = "ValueError" /\ ~discovered)
           /\ pc \in {"spawn", "session_enter", "initialize", "connect_list"} =>
                /\ command = (IF py THEN "python" ELSE "node")
                /\ server_params = [command |-> command, args |-> <<path>>,
                                    env |-> None]

\* C12's case: a path ending in .pyc was refused with ValueError, nothing was
\* spawned, and main has ended.
C12_Witness ==
    /\ pc = "done"
    /\ exc = "ValueError"
    /\ argv[2] = <<"s", ".", "p", "y", "c">>
    /\ transport = "none"
    /\ session = "none"

\* A result has a text block.
HasTextBlock(result) ==
    \E i \in 1..Len(result.content) : result.content[i].type = "text"

\* C13: a turn returns either the text of the first content block of the
\* result of its one call_tool request, when the first output item is a
\* function call, or the first text content of the first output item, when
\* that is a message, and then no call_tool request was sent; a first block
\* that is a text block always becomes the answer, which is printed as it is;
\* a result with no text block ends the turn in the handler, with an error.
C13_FinalTextIsFirstBlock ==
    /\ [](/\ pc = "return" =>
                \/ /\ response[1].type = "function_call"
                   /\ toolCalls = 1
                   /\ tool_call.content # <<>>
                   /\ tool_call.content[1].type = "text"
                   /\ final_message = tool_call.content[1].text
                \/ /\ response[1].type = "message"
                   /\ toolCalls = 0
                   /\ final_message = response[1].content[1].text
          /\ (pc \in TurnEnd /\ toolCalls = 1 /\ ~HasTextBlock(tool_call)) =>
                pc = "except" /\ exc \in {"IndexError", "AttributeError"})
    /\ [][(/\ pc = "extract"
           /\ tool_call.content # <<>>
           /\ tool_call.content[1].type = "text") =>
              (pc' = "return" /\ final_message' = tool_call.content[1].text)]_vars
    /\ [][pc = "return" =>
            printed' = Append(printed, [kind |-> "answer",
                                        text |-> final_message])]_vars

\* C13's case: the result holds two text blocks and the turn returns the text
\* of the first.
C13_Witness ==
    /\ pc = "return"
    /\ toolCalls = 1
    /\ tool_call = Result(FALSE, <<Text("Report A"), Text("Report B")>>)
    /\ final_message = "Report A"

\* C14: once the channel to the child process has dropped during a turn, the
\* loop goes on: the failure is printed and the prompt returns; every later
\* turn fails in its list_tools request, so it sends no call_tool request,
\* prints no answer and ends with a printed error; and when main has ended the
\* transport has been closed exactly once.
C14_DroppedChannelEndsTurns ==
    /\ [](/\ (channel = "down" /\ pc \in LoopPcs) =>
                pc \in {"prompt", "list_tools", "list_wait", "except"}
          /\ (channel = "down" /\ pc = "except") =>
                exc \in {"McpError", "EOFError"}
          /\ (channel = "down" /\ pc \in {"list_tools", "list_wait"}) =>
                toolCalls = 0 /\ modelCalls = 0
          /\ (pc = "done" /\ transport # "none") => closeCount = 1)
    /\ [][(channel = "down" /\ pc = "except") =>
            /\ pc' = "prompt"
            /\ printed'[Len(printed')] = [kind |-> "error", text |-> exc]
            /\ Len(printed') >= Len(printed)]_vars
    /\ [][(channel = "down" /\ pc \in LoopPcs /\ printed' # printed) =>
            printed'[Len(printed')].kind = "error"]_vars

\* C14's case: the channel dropped in the first turn, during its call_tool
\* request; the second turn has ended with an error too, and the loop prompts.
C14_Witness ==
    /\ pc = "prompt"
    /\ channel = "down"
    /\ iter = 2
    /\ Len(printed) = 2
    /\ printed[1] = [kind |-> "error", text |-> "McpError"]
    /\ printed[2] = [kind |-> "error", text |-> "McpError"]
    /\ listCalls = 1
    /\ toolCalls = 0

\* C15: a tool result with isError = true does not end the turn in the
\* handler nor the loop: its text becomes the turn's final message, is printed
\* as the answer, and the loop prompts again with the session initialized and
\* the channel up.
C15_ErrorResultIsTheAnswer ==
    /\ [](/\ (pc \in TurnEnd /\ toolCalls = 1 /\ tool_call.isError) =>
                /\ pc = "return"
                /\ final_message = tool_call.content[1].text
                /\ session = "initialized"
                /\ channel = "up")
    /\ [][(pc = "extract" /\ tool_call.isError) =>
            (pc' = "return" /\ final_message' = tool_call.content[1].text)]_vars
    /\ [][(pc = "return" /\ tool_call.isError) =>
            /\ printed' = Append(printed, [kind |-> "answer",
                                           text |-> tool_call.content[1].text])
            /\ pc' = "prompt"
            /\ session' = "initialized"
            /\ channel' = "up"]_vars

\* C15's case: the first turn's tool result was an error result, printed as
\* the answer; the second turn called a tool on the same session and printed
\* its report.
C15_Witness ==
    /\ pc = "prompt"
    /\ iter = 2
    /\ printed = <<[kind |-> "answer", text |-> "Error executing tool"],
                   [kind |-> "answer", text |-> "Report A"]>>
    /\ session = "initialized"
    /\ channel = "up"

(***************************************************************************)
(* The tool array of process_query, on every list of tool descriptors.     *)
(***************************************************************************)
\* The longest descriptor list drawn.
MaxTools == 3

\* Tool descriptors a server may return: the catalog's, one without a
\* description or required parameters, and one that repeats a name.
Descriptors ==
    { Catalog[1], Catalog[2],
      [name |-> "get_earthquake_stats", description |-> None,
       inputSchema |-> [required |-> {}]],
      [name |-> "get_earthquakes", description |-> "Another server's tool",
       inputSchema |-> [required |-> {"region", "start_time"}]] }

\* The answers of list_tools: every list of at most MaxTools descriptors.
ToolLists == UNION { [1..n -> Descriptors] : n \in 0..MaxTools }

\* process_query has received list_tools' answer (line 66).
InitAdapter ==
    /\ pc = "adapt"
    /\ argv = <<Prog, <<"s", ".", "p", "y">>>>
    /\ stdin = "open"
    /\ command = None
    /\ server_params = NoParams
    /\ exit_stack = <<"transport", "session">>
    /\ transport = "open"
    /\ session = "initialized"
    /\ channel = "up"
    /\ exc = "none"
    /\ iter = 1
    /\ line = <<"h", "i">>
    /\ query = <<"h", "i">>
    /\ tools \in ToolLists
    /\ available_tools = <<>>
    /\ response = <<>>
    /\ tool_name = None
    /\ tool_args = NoArgs
    /\ tool_call = NoResult
    /\ final_message = Unbound
    /\ printed = <<>>
    /\ inflight = 0
    /\ released = <<>>
    /\ closeCount = 0
    /\ cleanupRuns = 0
    /\ discovered = TRUE
    /\ modelCalls = 0
    /\ listCalls = 1
    /\ toolCalls = 0
    /\ srv_pc = "idle"
    /\ srv_args = NoCall
    /\ geo_reply = NoReply
    /\ geo_data = PyNone
    /\ usgs_params = NoUsgsParams
    /\ srv_result = PyNone
    /\ srv_exc = "none"
    /\ geo_requests = 0
    /\ usgs_requests = 0

\* process_query: the list comprehension that builds available_tools.
BuildTools ==
    /\ pc = "adapt"
    /\ available_tools' = AvailableTools(tools)
    /\ pc' = "adapted"
    /\ UNCHANGED <<srv, argv, stdin, command, server_params, channel, exc,
                   iter, line, query, printed, inflight, discovered, tools,
                   response, tool_name, tool_args, tool_call, final_message,
                   counters, resources>>

\* process_query: the model endpoint is called with tools=available_tools.
SendTools ==
    /\ pc = "adapted"
    /\ modelCalls' = modelCalls + 1
    /\ response' = <<[type |-> "tools", name |-> None, arguments |-> None,
                      content |-> available_tools]>>
    /\ pc' = "sent"
    /\ UNCHANGED <<srv, argv, stdin, command, server_params, channel, exc,
                   iter, line, query, printed, inflight, discovered, tools,
                   available_tools, tool_name, tool_args, tool_call,
                   final_message, listCalls, toolCalls, resources>>

NextAdapter == BuildTools \/ SendTools

SpecAdapter == InitAdapter /\ [][NextAdapter]_vars

\* C16: the tool array passed to the model endpoint has the length and the
\* order of list_tools' answer, and its i-th entry carries the i-th tool's
\* name, description and input schema unchanged, with type "function".
C16_ToolArrayMirrorsDescriptors ==
    pc = "sent" =>
        /\ Len(response[1].content) = Len(tools)
        /\ \A i \in 1..Len(tools) :
              /\ response[1].content[i].type = "function"
              /\ response[1].content[i].name = tools[i].name
              /\ response[1].content[i].description = tools[i].description
              /\ response[1].content[i].parameters = tools[i].inputSchema

\* C16's case: three descriptors, the first two different, the third without
\* a description, have been adapted and passed on.
C16_Witness ==
    /\ pc = "sent"
    /\ Len(tools) = 3
    /\ tools[1] # tools[2]
    /\ tools[1].name = tools[3].name
    /\ tools[2].description = None
    /\ response[1].content[2].description = None
    /\ response[1].content[1].parameters # response[1].content[3].parameters

\* C17: what a turn does after the model call is fixed by the first output
\* item: the step that interprets the response is the step that any response
\* with the same first item allows; the name and the arguments of a call_tool
\* request are those of the first item; after that step the turn never looks
\* at the response again, and it issues at most one call_tool request.
C17_OnlyFirstItemMatters ==
    /\ [](/\ pc \in {"call_tool", "call_wait", "extract"} =>
                /\ response # <<>>
                /\ response[1].type = "function_call"
                /\ tool_name = response[1].name
                /\ tool_args.kind = literal_eval(response[1].arguments).kind
                /\ tool_args.keys = literal_eval(response[1].arguments).keys
          /\ toolCalls <= 1
          /\ (pc = "return" /\ toolCalls = 0) =>
                /\ response[1].type = "message"
                /\ final_message = response[1].content[1].text
          /\ (pc \in TurnEnd /\ toolCalls = 1) =>
                response[1].type = "function_call")
    /\ [][pc = "interpret" =>
            \A other \in Responses :
                (other # <<>> /\ response # <<>> /\ other[1] = response[1]) =>
                    InterpretResponse(other)]_vars
    /\ [][(pc \in {"call_tool", "call_wait", "extract", "return", "except"}) =>
            (pc' # "interpret")]_vars

\* C17's case: the response was a message followed by a function call; the
\* turn returned the message's text and issued no call_tool request.
C17_Witness ==
    /\ pc = "return"
    /\ Len(response) = 2
    /\ response[1].type = "message"
    /\ response[2].type = "function_call"
    /\ final_message = "Hello"
    /\ toolCalls = 0

\* C19: when the first output item is neither a function call nor a message,
\* the turn ends in the handler with UnboundLocalError, having issued no
\* call_tool request and with no final message (so none of an earlier turn
\* is printed); the handler prints the error and the loop prompts again.
C19_OtherItemEndsInError ==
    /\ [](/\ (/\ pc \in TurnEnd
              /\ response # <<>>
              /\ response[1].type \notin {"function_call", "message"}) =>
                /\ pc = "except"
                /\ exc = "UnboundLocalError"
                /\ toolCalls = 0
                /\ final_message = Unbound
          /\ pc = "interpret" => final_message = Unbound)
    /\ [][(/\ pc = "interpret"
           /\ response # <<>>
           /\ response[1].type \notin {"function_call", "message"}) =>
             (pc' = "except" /\ exc' = "UnboundLocalError" /\ printed' = printed)]_vars
    /\ [][(pc = "except" /\ exc = "UnboundLocalError") =>
            /\ pc' = "prompt"
            /\ printed' = Append(printed, [kind |-> "error",
                                           text |-> "UnboundLocalError"])]_vars

\* C19's case: the first turn printed an answer; the second turn's response
\* began with a reasoning item, its error is printed and the loop prompts.
C19_Witness ==
    /\ pc = "prompt"
    /\ iter = 2
    /\ printed = <<[kind |-> "answer", text |-> "Hello"],
                   [kind |-> "error", text |-> "UnboundLocalError"]>>
    /\ toolCalls = 0

\* C18: once the input has reached its end, the loop ends and cleanup runs;
\* so it does once a quit line has been read.
C18_InputEndEndsLoop ==
    /\ (stdin = "eof") ~> (cleanupRuns = 1)
    /\ IsQuitLine(line) ~> (cleanupRuns = 1)

(***************************************************************************)
(* srvr_earthquake.py: one call of the tool search_earthquake_by_place.    *)
(***************************************************************************)
\* The variables of client.py, which the server does not touch.
client == <<pc, argv, stdin, command, server_params, exit_stack, transport,
            session, channel, exc, iter, line, query, tools, available_tools,
            response, tool_name, tool_args, tool_call, final_message, printed,
            inflight, released, closeCount, cleanupRuns, discovered,
            modelCalls, listCalls, toolCalls>>

\* The arguments drawn for the call.
Locations == {"Tokyo", "Atlantis", ""}
Magnitudes == {None, "5.0"}
Limits == {1, 2}

\* What the geocoding service may answer: one match, no match, or a failure
\* of the request.
GeoReplies ==
    { GeoResults(<<[lat |-> 35, lon |-> 139]>>),
      GeoResults(<<[lat |-> 37, lon |-> 15]>>),
      GeoResults(<<>>),
      GeoError("HTTPStatusError"),
      GeoError("ConnectTimeout"),
      GeoError("JSONDecodeError") }

\* What the USGS catalog may answer: the number of features of the body, or
\* -1 when make_usgs_request returns None.
UsgsReplies == {-1, 0, 1, 3}

\* make_geocoding_request: the value returned for the service's answer.  The
\* no-match message is not an f-string: its braces are returned as written.
make_geocoding_request(location_name, reply) ==
    IF reply.kind = "error"
    THEN PyStr(<<"Geocoding failed for '", location_name, "': ", reply.error>>)
    ELSE IF reply.results = <<>>
    THEN PyStr(<<" Could not find location for '{location_name}'.">>)
    ELSE PyCoords(reply.results[1].lat, reply.results[1].lon)

\* Python's truth value of a value of the tool: None, the empty str and the
\* empty dict are false.
IsFalse(v) == v.type = "NoneType" \/ (v.type = "str" /\ v.text = <<>>)

\* "\n".join of n formatted reports.
Reports(n) == PyStr([i \in 1..n |-> "Earthquake Report"])

\* The client has not been started; the server waits for a call.
InitServer ==
    /\ Init
    /\ argv = <<Prog>>

\* The tool is called: location, min_magnitude and max_results are given,
\* the other parameters take their defaults.
SrvCall ==
    /\ srv_pc = "idle"
    /\ \E l \in Locations, m \in Magnitudes, n \in Limits :
          srv_args' = [location |-> l, min_magnitude |-> m, max_results |-> n]
    /\ srv_pc' = "geocode"
    /\ UNCHANGED <<client, geo_reply, geo_data, usgs_params, srv_result,
                   srv_exc, geo_requests, usgs_requests>>

\* geo_data = await make_geocoding_request(location).
SrvGeocode ==
    /\ srv_pc = "geocode"
    /\ geo_requests' = geo_requests + 1
    /\ geo_reply' \in GeoReplies
    /\ geo_data' = make_geocoding_request(srv_args.location, geo_reply')
    /\ srv_pc' = "check"
    /\ UNCHANGED <<client, srv_args, usgs_params, srv_result, srv_exc,
                   usgs_requests>>

\* The test of geo_data, the two subscripts and the USGS parameters.
SrvCheck ==
    /\ srv_pc = "check"
    /\ IF IsFalse(geo_data)
       THEN /\ srv_result' = PyStr(<<"Unable to geocode location: ",
                                     srv_args.location>>)
            /\ srv_pc' = "returned"
            /\ UNCHANGED <<srv_exc, usgs_params>>
       ELSE IF geo_data.type # "dict"
       THEN /\ srv_exc' = "TypeError"
            /\ srv_pc' = "raised"
            /\ UNCHANGED <<srv_result, usgs_params>>
       ELSE /\ usgs_params' =
                 [latitude |-> geo_data.lat, longitude |-> geo_data.lon,
                  keys |-> {"format", "latitude", "longitude", "maxradiuskm",
                            "starttime", "endtime", "orderby", "limit"}
                           \cup (IF srv_args.min_magnitude # None
                                 THEN {"minmagnitude"} ELSE {}),
                  limit |-> srv_args.max_results]
            /\ srv_pc' = "usgs"
            /\ UNCHANGED <<srv_result, srv_exc>>
    /\ UNCHANGED <<client, srv_args, geo_reply, geo_data, geo_requests,
                   usgs_requests>>

\* The USGS request and the formatting of at most max_results features.
SrvUsgs ==
    /\ srv_pc = "usgs"
    /\ usgs_requests' = usgs_requests + 1
    /\ \E features \in UsgsReplies :
          srv_result' =
              IF features <= 0
              THEN PyStr(<<"No earthquakes found for the given region/time window.">>)
              ELSE Reports(IF features < usgs_params.limit
                           THEN features ELSE usgs_params.limit)
    /\ srv_pc' = "returned"
    /\ UNCHANGED <<client, srv_args, geo_reply, geo_data, usgs_params,
                   srv_exc, geo_requests>>

NextServer == SrvCall \/ SrvGeocode \/ SrvCheck \/ SrvUsgs

SpecServer == InitServer /\ [][NextServer]_vars

\* The geocoding request failed, or found no match.
GeocodingFailed ==
    geo_requests = 1 /\ (geo_reply.kind = "error" \/ geo_reply.results = <<>>)

\* C20: when geocoding the location fails or finds no match, the tool
\* returns the text saying the location could not be geocoded, raises no
\* exception, and sends no request to the USGS catalog.
C20_GeocodeFailureReported ==
    /\ GeocodingFailed => usgs_requests = 0 /\ srv_pc # "usgs"
    /\ (GeocodingFailed /\ srv_pc \notin {"geocode", "check"}) =>
          /\ srv_pc = "returned"
          /\ srv_exc = "none"
          /\ srv_result = PyStr(<<"Unable to geocode location: ",
                                  srv_args.location>>)

====
